---- MODULE Spec2Model ----
(***************************************************************************)
(* LRU::Statistics<Key> (include/lru/statistics.hpp): the access-statistics *)
(* ledger of the LRU cache.  The ledger's fields are the variables, every   *)
(* member function is an operator or an action, and history variables       *)
(* record what the callers did so that the ledger's answers can be compared *)
(* with the calls and events that led to them.                              *)
(***************************************************************************)
EXTENDS Integers, Sequences, FiniteSets

\* ---------------------------------------------------------------- bounds
\* The keys the callers use.
Keys == {"a", "b", "c"}

\* At most this many outcomes are recorded in a run.
MaxEvents == 3

\* A constructor is given at most this many keys (duplicates allowed).
MaxCtorKeys == 2

\* size_t is modelled with this many values; unsigned arithmetic wraps at it.
SizeModulus == 16

\* A double is modelled with this many significand bits (round to nearest,
\* ties to even), in place of the 53 of binary64.
MantissaBits == 5

VARIABLES
    _total_accesses,   \* size_t _total_accesses
    _total_hits,       \* size_t _total_hits
    _hit_map,          \* HitMap _hit_map: key -> KeyStatistics
    last,              \* the most recent call: its name, arguments and outcome
    last_call,         \* history: per key, the most recent administrative call
    recorded,          \* history: per key, the events since tracking began
    events,            \* history: all events recorded since construction
    untracked,         \* history: events recorded for a key not tracked then
    discarded,         \* history: events held by entries when they were removed
    in_flight,         \* the recorded event whose per-key step is still to run
    serialised         \* whether the owning cache runs its calls one at a time

ledger == <<_total_accesses, _total_hits, _hit_map>>
history == <<last_call, recorded, events, untracked, discarded>>
threads == <<in_flight, serialised>>
vars == <<_total_accesses, _total_hits, _hit_map, last,
          last_call, recorded, events, untracked, discarded,
          in_flight, serialised>>

\* ------------------------------------------------------- size_t arithmetic
\* Unsigned subtraction of two size_t values.
size_sub(x, y) == (x - y) % SizeModulus

\* Unsigned increment of a size_t value.
size_inc(x) == (x + 1) % SizeModulus

\* -------------------------------------------------------- double arithmetic
\* A finite double is held as an integer count of units of 2^-Scale; every
\* double of at least 1/16 is a whole number of units.
Scale == MantissaBits + 3

Unit == 2 ^ Scale

Finite(scaled) == [class |-> "finite", scaled |-> scaled]

NaN == [class |-> "nan"]

Infinity == [class |-> "inf"]

RECURSIVE BitLength(_)
\* The number of binary digits of n.
BitLength(n) == IF n = 0 THEN 0 ELSE 1 + BitLength(n \div 2)

\* The double nearest to num / den units (num >= 0, den > 0).
RoundToDouble(num, den) ==
    LET whole == num \div den
        ulp == IF BitLength(whole) > MantissaBits
                   THEN 2 ^ (BitLength(whole) - MantissaBits)
                   ELSE 1
        low == num \div (den * ulp)
        rest == num - low * den * ulp
    IN  IF 2 * rest > den * ulp \/ (2 * rest = den * ulp /\ low % 2 = 1)
            THEN (low + 1) * ulp
            ELSE low * ulp

\* static_cast<double>(n), and the conversion of an integer operand.
to_double(n) == Finite(RoundToDouble(n * Unit, 1))

\* x / y on doubles: 0/0 is NaN and x/0 is infinite, no error is raised.
double_div(x, y) ==
    IF x.class # "finite" \/ y.class # "finite"
        THEN NaN
        ELSE IF y.scaled = 0
            THEN IF x.scaled = 0 THEN NaN ELSE Infinity
            ELSE Finite(RoundToDouble(x.scaled * Unit, y.scaled))

\* x - y on doubles with x >= y; NaN and infinity propagate.
double_sub(x, y) ==
    IF x.class = "nan" \/ y.class = "nan"
        THEN NaN
        ELSE IF x.class = "inf" \/ y.class = "inf"
            THEN IF x.class = y.class THEN NaN ELSE Infinity
            ELSE Finite(RoundToDouble(x.scaled - y.scaled, 1))

\* ---------------------------------------------------------- KeyStatistics
\* KeyStatistics(): both counters zero.
KeyStatistics == [hits |-> 0, misses |-> 0]

\* KeyStatistics::accesses().
accesses(stats) == (stats.hits + stats.misses) % SizeModulus

\* ------------------------------------------- std::unordered_map operations
\* _hit_map.find(key) != _hit_map.end()
found(map, key) == key \in DOMAIN map

\* emplace mistaken for insert_or_assign: the value of a present key is replaced.
emplace_overwriting(map, key, value) ==
    [k \in DOMAIN map \cup {key} |-> IF k = key THEN value ELSE map[k]]

\* _hit_map.emplace(key, value): inserts only when the key is absent.
emplace(map, key, value) ==
    IF key \in DOMAIN map
        THEN map
        ELSE [k \in DOMAIN map \cup {key} |-> IF k = key THEN value ELSE map[k]]

\* erase that leaves the entry in place.
erase_keeping(map, key) == map

\* _hit_map.erase(key)
erase(map, key) == [k \in DOMAIN map \ {key} |-> map[k]]

\* _hit_map.clear()
clear(map) == [k \in {} |-> KeyStatistics]

\* _hit_map.count(key)
count(map, key) == IF key \in DOMAIN map THEN 1 ELSE 0

\* _hit_map.size()
size(map) == Cardinality(DOMAIN map)

\* _hit_map.empty()
empty(map) == DOMAIN map = {}

\* ------------------------------------------------------ outcomes of a call
\* A call that returned value.
Returned(value) == [thrown |-> "none", value |-> value]

\* A call that threw the error named e.
Thrown(e) == [thrown |-> e]

\* A call of a void function that returned.
Void == [thrown |-> "none"]

\* ------------------------------------------------------------- read API
\* size_t total_accesses() const noexcept
total_accesses == _total_accesses

\* size_t total_hits() const noexcept
total_hits == _total_hits

\* total_misses with the operands of the subtraction exchanged.
total_misses_swapped == size_sub(total_hits, total_accesses)

\* size_t total_misses() const noexcept
total_misses == size_sub(total_accesses, total_hits)

\* A lookup through operator[], which inserts fresh counters for an absent key.
lookup_inserting(key) ==
    /\ _hit_map' = emplace(_hit_map, key, KeyStatistics)
    /\ UNCHANGED <<_total_accesses, _total_hits>>

\* What the lookup of stats_for does to the ledger: find() on the const map
\* changes nothing, whether or not the key is found.
lookup(key) == UNCHANGED <<_total_accesses, _total_hits, _hit_map>>

\* hit_rate without the cast: an integer division, which traps on zero.
hit_rate_integer_division ==
    IF total_accesses = 0
        THEN [class |-> "trap"]
        ELSE to_double(total_hits \div total_accesses)

\* double hit_rate() const noexcept
hit_rate == double_div(to_double(total_hits), to_double(total_accesses))

\* double miss_rate() const noexcept
miss_rate == double_sub(to_double(1), hit_rate)

\* stats_for answering with fresh counters for a key that is not found.
stats_for_default(key) ==
    IF ~found(_hit_map, key)
        THEN Returned(KeyStatistics)
        ELSE Returned(_hit_map[key])

\* const KeyStatistics& stats_for(const Key& key) const
stats_for(key) ==
    IF ~found(_hit_map, key)
        THEN Thrown("UnmonitoredKey")
        ELSE Returned(_hit_map[key])

\* hits_for reading the misses field.
hits_for_misses(key) ==
    LET stats == stats_for(key)
    IN  IF stats.thrown # "none" THEN stats ELSE Returned(stats.value.misses)

\* size_t hits_for(const Key& key) const
hits_for(key) ==
    LET stats == stats_for(key)
    IN  IF stats.thrown # "none" THEN stats ELSE Returned(stats.value.hits)

\* misses_for answering with the accesses of the key.
misses_for_accesses(key) ==
    LET stats == stats_for(key)
    IN  IF stats.thrown # "none" THEN stats ELSE Returned(accesses(stats.value))

\* size_t misses_for(const Key& key) const
misses_for(key) ==
    LET stats == stats_for(key)
    IN  IF stats.thrown # "none" THEN stats ELSE Returned(stats.value.misses)

\* accesses_for leaving the misses out.
accesses_for_hits_only(key) ==
    LET stats == stats_for(key)
    IN  IF stats.thrown # "none" THEN stats ELSE Returned(stats.value.hits)

\* size_t accesses_for(const Key& key) const
accesses_for(key) ==
    LET stats == stats_for(key)
    IN  IF stats.thrown # "none" THEN stats ELSE Returned(accesses(stats.value))

\* is_monitoring answering whether any key is tracked.
is_monitoring_any(key) == ~empty(_hit_map)

\* bool is_monitoring(const Key& key) const noexcept: a count converted to bool
is_monitoring(key) == count(_hit_map, key) # 0

\* size_t number_of_monitored_keys() const noexcept
number_of_monitored_keys == size(_hit_map)

\* is_monitoring_keys without the negation.
is_monitoring_keys_of_empty == IF empty(_hit_map) THEN 1 ELSE 0

\* size_t is_monitoring_keys() const noexcept: a bool converted to size_t
is_monitoring_keys == IF ~empty(_hit_map) THEN 1 ELSE 0

\* ------------------------------------------------------- administration
\* monitor assigning fresh counters whether or not the key is present.
monitor_resetting(key) ==
    /\ _hit_map' = [k \in DOMAIN _hit_map \cup {key} |->
                        IF k = key THEN KeyStatistics ELSE _hit_map[k]]
    /\ UNCHANGED <<_total_accesses, _total_hits>>

\* void monitor(const Key& key)
monitor(key) ==
    /\ _hit_map' = emplace(_hit_map, key, KeyStatistics)
    /\ UNCHANGED <<_total_accesses, _total_hits>>

\* unmonitor taking the removed entry's counts out of the aggregates.
unmonitor_subtracting(key) ==
    /\ _hit_map' = erase(_hit_map, key)
    /\ _total_accesses' =
           IF found(_hit_map, key)
               THEN size_sub(_total_accesses, accesses(_hit_map[key]))
               ELSE _total_accesses
    /\ _total_hits' =
           IF found(_hit_map, key)
               THEN size_sub(_total_hits, _hit_map[key].hits)
               ELSE _total_hits

\* unmonitor removing every entry.
unmonitor_clearing(key) ==
    /\ _hit_map' = clear(_hit_map)
    /\ UNCHANGED <<_total_accesses, _total_hits>>

\* unmonitor refusing a key that is not tracked.
unmonitor_strict(key) ==
    /\ found(_hit_map, key)
    /\ _hit_map' = erase(_hit_map, key)
    /\ UNCHANGED <<_total_accesses, _total_hits>>

\* void unmonitor(const Key& key)
unmonitor(key) ==
    /\ _hit_map' = erase(_hit_map, key)
    /\ UNCHANGED <<_total_accesses, _total_hits>>

\* unmonitor_all resetting the aggregates as well.
unmonitor_all_resetting ==
    /\ _hit_map' = clear(_hit_map)
    /\ _total_accesses' = 0
    /\ _total_hits' = 0

\* void unmonitor_all()
unmonitor_all ==
    /\ _hit_map' = clear(_hit_map)
    /\ UNCHANGED <<_total_accesses, _total_hits>>

\* The constructor's loop starting one key late.
monitor_each_skipping_first(map, keys) ==
    [k \in DOMAIN map \cup {keys[i] : i \in 2..Len(keys)} |->
        IF k \in DOMAIN map THEN map[k] ELSE KeyStatistics]

\* The constructors: Statistics() followed by monitor(key) for each given key.
RECURSIVE monitor_each(_, _)
monitor_each(map, keys) ==
    IF keys = <<>>
        THEN map
        ELSE monitor_each(emplace(map, Head(keys), KeyStatistics), Tail(keys))

\* ------------------------------------------- Internal::StatisticsMutator
\* A hit that counts in both counters of the key.
register_hit_counting_twice(key) ==
    /\ _total_accesses' = size_inc(_total_accesses)
    /\ _total_hits' = size_inc(_total_hits)
    /\ _hit_map' = IF found(_hit_map, key)
                       THEN [_hit_map EXCEPT ![key].hits = size_inc(@),
                                             ![key].misses = size_inc(@)]
                       ELSE _hit_map

\* The owning cache reports a hit of key.
register_hit(key) ==
    /\ _total_accesses' = size_inc(_total_accesses)
    /\ _total_hits' = size_inc(_total_hits)
    /\ _hit_map' = IF found(_hit_map, key)
                       THEN [_hit_map EXCEPT ![key].hits = size_inc(@)]
                       ELSE _hit_map

\* A miss recorded through operator[], which inserts an absent key.
register_miss_inserting(key) ==
    /\ _total_accesses' = size_inc(_total_accesses)
    /\ _total_hits' = _total_hits
    /\ _hit_map' = [k \in DOMAIN _hit_map \cup {key} |->
                        IF k = key
                            THEN IF found(_hit_map, key)
                                     THEN [_hit_map[key] EXCEPT !.misses = size_inc(@)]
                                     ELSE [hits |-> 0, misses |-> 1]
                            ELSE _hit_map[k]]

\* The owning cache reports a miss of key.
register_miss(key) ==
    /\ _total_accesses' = size_inc(_total_accesses)
    /\ _total_hits' = _total_hits
    /\ _hit_map' = IF found(_hit_map, key)
                       THEN [_hit_map EXCEPT ![key].misses = size_inc(@)]
                       ELSE _hit_map

\* The two steps of a recorded event, as another thread can see them: first
\* the aggregates, then the counter of the key if the key is tracked.
register_hit_aggregates ==
    /\ _total_accesses' = size_inc(_total_accesses)
    /\ _total_hits' = size_inc(_total_hits)
    /\ UNCHANGED _hit_map

register_hit_per_key(key) ==
    /\ _hit_map' = IF found(_hit_map, key)
                       THEN [_hit_map EXCEPT ![key].hits = size_inc(@)]
                       ELSE _hit_map
    /\ UNCHANGED <<_total_accesses, _total_hits>>

register_miss_aggregates ==
    /\ _total_accesses' = size_inc(_total_accesses)
    /\ UNCHANGED <<_total_hits, _hit_map>>

register_miss_per_key(key) ==
    /\ _hit_map' = IF found(_hit_map, key)
                       THEN [_hit_map EXCEPT ![key].misses = size_inc(@)]
                       ELSE _hit_map
    /\ UNCHANGED <<_total_accesses, _total_hits>>

\* ------------------------------------------------------------ the callers
\* The sequences of at most n keys.
KeySeqs(n) == UNION {[1..m -> Keys] : m \in 0..n}

\* The keys of a sequence.
Range(keys) == {keys[i] : i \in DOMAIN keys}

\* The record of a call: its name, its key (or "-"), what it returned or
\* threw, and the keys that were tracked when it was made.
Call(op, key, result) ==
    [op |-> op, key |-> key, result |-> result, before |-> DOMAIN _hit_map]

NoEvents == [hits |-> 0, misses |-> 0]

\* No recorded event is between its two steps.
Idle == [op |-> "idle", key |-> "-"]

\* The ledger is constructed from a (possibly empty) sequence of keys.
Constructed ==
    \E keys \in KeySeqs(MaxCtorKeys) :
        /\ _total_accesses = 0
        /\ _total_hits = 0
        /\ _hit_map = monitor_each(clear(<<>>), keys)
        /\ last = [op |-> "Statistics", key |-> "-", result |-> Returned(keys),
                   before |-> {}]
        /\ last_call = [k \in Keys |-> IF k \in Range(keys) THEN "monitor" ELSE "none"]
        /\ recorded = [k \in Keys |-> NoEvents]
        /\ events = NoEvents
        /\ untracked = 0
        /\ discarded = 0

\* The calls of the owning cache run one at a time, each to completion.
Init ==
    /\ Constructed
    /\ in_flight = Idle
    /\ serialised = TRUE

\* A caller starts tracking a key.
Monitor ==
    \E key \in Keys :
        /\ monitor(key)
        /\ last' = Call("monitor", key, Void)
        /\ last_call' = [last_call EXCEPT ![key] = "monitor"]
        /\ recorded' = IF last_call[key] = "monitor"
                           THEN recorded
                           ELSE [recorded EXCEPT ![key] = NoEvents]
        /\ UNCHANGED <<events, untracked, discarded, threads>>

\* A caller stops tracking a key.
Unmonitor ==
    \E key \in Keys :
        /\ unmonitor(key)
        /\ last' = Call("unmonitor", key, Void)
        /\ last_call' = [last_call EXCEPT ![key] = "unmonitor"]
        /\ recorded' = [recorded EXCEPT ![key] = NoEvents]
        /\ discarded' = discarded + recorded[key].hits + recorded[key].misses
        /\ UNCHANGED <<events, untracked, threads>>

RECURSIVE SumOver(_, _)
\* The sum of f[k] over the keys k of set.
SumOver(f, set) ==
    IF set = {}
        THEN 0
        ELSE LET k == CHOOSE x \in set : TRUE
             IN  f[k] + SumOver(f, set \ {k})

\* A caller stops tracking every key.
UnmonitorAll ==
    /\ unmonitor_all
    /\ last' = Call("unmonitor_all", "-", Void)
    /\ last_call' = [k \in Keys |-> "unmonitor_all"]
    /\ recorded' = [k \in Keys |-> NoEvents]
    /\ discarded' = discarded
           + SumOver([k \in Keys |-> recorded[k].hits + recorded[k].misses], Keys)
    /\ UNCHANGED <<events, untracked, threads>>

\* The owning cache records a hit.
RegisterHit ==
    \E key \in Keys :
        /\ events.hits + events.misses < MaxEvents
        /\ register_hit(key)
        /\ last' = Call("register_hit", key, Void)
        /\ events' = [events EXCEPT !.hits = @ + 1]
        /\ IF last_call[key] = "monitor"
               THEN /\ recorded' = [recorded EXCEPT ![key].hits = @ + 1]
                    /\ UNCHANGED untracked
               ELSE /\ untracked' = untracked + 1
                    /\ UNCHANGED recorded
        /\ UNCHANGED <<last_call, discarded, threads>>

\* The owning cache records a miss.
RegisterMiss ==
    \E key \in Keys :
        /\ events.hits + events.misses < MaxEvents
        /\ register_miss(key)
        /\ last' = Call("register_miss", key, Void)
        /\ events' = [events EXCEPT !.misses = @ + 1]
        /\ IF last_call[key] = "monitor"
               THEN /\ recorded' = [recorded EXCEPT ![key].misses = @ + 1]
                    /\ UNCHANGED untracked
               ELSE /\ untracked' = untracked + 1
                    /\ UNCHANGED recorded
        /\ UNCHANGED <<last_call, discarded, threads>>

\* A caller reads an aggregate.
TotalAccesses ==
    /\ last' = Call("total_accesses", "-", Returned(total_accesses))
    /\ UNCHANGED <<ledger, history, threads>>

TotalHits ==
    /\ last' = Call("total_hits", "-", Returned(total_hits))
    /\ UNCHANGED <<ledger, history, threads>>

TotalMisses ==
    /\ last' = Call("total_misses", "-", Returned(total_misses))
    /\ UNCHANGED <<ledger, history, threads>>

\* A caller reads a rate.
HitRate ==
    /\ last' = Call("hit_rate", "-", Returned(hit_rate))
    /\ UNCHANGED <<ledger, history, threads>>

MissRate ==
    /\ last' = Call("miss_rate", "-", Returned(miss_rate))
    /\ UNCHANGED <<ledger, history, threads>>

\* A caller reads the counters of a key.
StatsFor ==
    \E key \in Keys :
        /\ last' = Call("stats_for", key, stats_for(key))
        /\ lookup(key)
        /\ UNCHANGED <<history, threads>>

HitsFor ==
    \E key \in Keys :
        /\ last' = Call("hits_for", key, hits_for(key))
        /\ lookup(key)
        /\ UNCHANGED <<history, threads>>

MissesFor ==
    \E key \in Keys :
        /\ last' = Call("misses_for", key, misses_for(key))
        /\ lookup(key)
        /\ UNCHANGED <<history, threads>>

AccessesFor ==
    \E key \in Keys :
        /\ last' = Call("accesses_for", key, accesses_for(key))
        /\ lookup(key)
        /\ UNCHANGED <<history, threads>>

\* A caller asks what is tracked.
IsMonitoring ==
    \E key \in Keys :
        /\ last' = Call("is_monitoring", key, Returned(is_monitoring(key)))
        /\ UNCHANGED <<ledger, history, threads>>

NumberOfMonitoredKeys ==
    /\ last' = Call("number_of_monitored_keys", "-", Returned(number_of_monitored_keys))
    /\ UNCHANGED <<ledger, history, threads>>

IsMonitoringKeys ==
    /\ last' = Call("is_monitoring_keys", "-", Returned(is_monitoring_keys))
    /\ UNCHANGED <<ledger, history, threads>>

Next ==
    \/ Monitor
    \/ Unmonitor
    \/ UnmonitorAll
    \/ RegisterHit
    \/ RegisterMiss
    \/ TotalAccesses
    \/ TotalHits
    \/ TotalMisses
    \/ HitRate
    \/ MissRate
    \/ StatsFor
    \/ HitsFor
    \/ MissesFor
    \/ AccessesFor
    \/ IsMonitoring
    \/ NumberOfMonitoredKeys
    \/ IsMonitoringKeys

Spec == Init /\ [][Next]_vars

\* ------------------------------------------------------ the rates alone
\* The calls that decide the rates: the recorded events, the calls that change
\* what is tracked, and the two rate reads.
NextRates ==
    \/ Monitor
    \/ UnmonitorAll
    \/ RegisterHit
    \/ RegisterMiss
    \/ HitRate
    \/ MissRate

SpecRates == Init /\ [][NextRates]_vars

\* ---------------------------------------------- the ledger between threads
\* The ledger takes no lock.  The owning cache either runs its calls one at a
\* time (serialised) or lets a reader run between the two steps of an event.
InitThreads ==
    /\ Constructed
    /\ in_flight = Idle
    /\ serialised \in BOOLEAN

\* The history of an event is written when the event starts.
EventStarts(key, field) ==
    /\ events' = [events EXCEPT ![field] = @ + 1]
    /\ IF last_call[key] = "monitor"
           THEN /\ recorded' = [recorded EXCEPT ![key][field] = @ + 1]
                /\ UNCHANGED untracked
           ELSE /\ untracked' = untracked + 1
                /\ UNCHANGED recorded
    /\ UNCHANGED <<last_call, discarded>>

\* The owning cache starts to record a hit: the aggregates are updated.
BeginRegisterHit ==
    \E key \in Keys :
        /\ in_flight = Idle
        /\ events.hits + events.misses < MaxEvents
        /\ register_hit_aggregates
        /\ in_flight' = [op |-> "register_hit", key |-> key]
        /\ EventStarts(key, "hits")
        /\ UNCHANGED <<last, serialised>>

\* The hit's second step: the counter of the key.
EndRegisterHit ==
    /\ in_flight.op = "register_hit"
    /\ register_hit_per_key(in_flight.key)
    /\ last' = Call("register_hit", in_flight.key, Void)
    /\ in_flight' = Idle
    /\ UNCHANGED <<history, serialised>>

\* The owning cache starts to record a miss: the aggregates are updated.
BeginRegisterMiss ==
    \E key \in Keys :
        /\ in_flight = Idle
        /\ events.hits + events.misses < MaxEvents
        /\ register_miss_aggregates
        /\ in_flight' = [op |-> "register_miss", key |-> key]
        /\ EventStarts(key, "misses")
        /\ UNCHANGED <<last, serialised>>

\* The miss's second step: the counter of the key.
EndRegisterMiss ==
    /\ in_flight.op = "register_miss"
    /\ register_miss_per_key(in_flight.key)
    /\ last' = Call("register_miss", in_flight.key, Void)
    /\ in_flight' = Idle
    /\ UNCHANGED <<history, serialised>>

\* A reader looks at the aggregates and at the counters of a key; what had
\* been recorded when it looked is kept beside what it saw.
Observe ==
    \E key \in Keys :
        /\ serialised => in_flight = Idle
        /\ last' = Call("observe", key,
                        Returned([total_accesses |-> total_accesses,
                                  total_hits |-> total_hits,
                                  stats |-> stats_for(key),
                                  tracked |-> last_call[key] = "monitor",
                                  events |-> events,
                                  recorded |-> recorded[key]]))
        /\ UNCHANGED <<ledger, history, threads>>

\* Administrative calls run between events.
MonitorBetweenEvents == in_flight = Idle /\ Monitor

UnmonitorBetweenEvents == in_flight = Idle /\ Unmonitor

UnmonitorAllBetweenEvents == in_flight = Idle /\ UnmonitorAll

NextThreads ==
    \/ BeginRegisterHit
    \/ EndRegisterHit
    \/ BeginRegisterMiss
    \/ EndRegisterMiss
    \/ Observe
    \/ MonitorBetweenEvents
    \/ UnmonitorBetweenEvents
    \/ UnmonitorAllBetweenEvents

SpecThreads == InitThreads /\ [][NextThreads]_vars

\* ------------------------------------------------------------ properties
\* The accesses held by the entries of the ledger, summed.
SumOfAccesses ==
    SumOver([k \in DOMAIN _hit_map |-> _hit_map[k].hits + _hit_map[k].misses],
            DOMAIN _hit_map)

\* The key is tracked according to the calls made: the most recent
\* administrative call that affected it was monitor (or its constructor).
Tracked(k) == last_call[k] = "monitor"

\* C1: in every reachable state and for every key, stats_for, hits_for,
\* misses_for and accesses_for throw UnmonitoredKey exactly when the key is
\* not tracked (never monitored, or removed since), and otherwise return the
\* key's counters.
C1_AccessorsFailExactlyWhenUnmonitored ==
    \A k \in Keys :
        /\ stats_for(k).thrown = (IF Tracked(k) THEN "none" ELSE "UnmonitoredKey")
        /\ hits_for(k).thrown = stats_for(k).thrown
        /\ misses_for(k).thrown = stats_for(k).thrown
        /\ accesses_for(k).thrown = stats_for(k).thrown
        /\ Tracked(k) =>
            /\ stats_for(k).value = _hit_map[k]
            /\ hits_for(k).value = _hit_map[k].hits
            /\ misses_for(k).value = _hit_map[k].misses
            /\ accesses_for(k).value = _hit_map[k].hits + _hit_map[k].misses
        /\ (last.op \in {"stats_for", "hits_for", "misses_for", "accesses_for"}
                /\ last.key = k)
            => (last.result.thrown = "UnmonitoredKey" <=> ~Tracked(k))

\* C1 witness: stats_for has just thrown for a key that was tracked, had
\* events recorded and was removed, while another key is tracked with events.
C1_Witness ==
    /\ last.op = "stats_for"
    /\ last.result.thrown = "UnmonitoredKey"
    /\ last_call[last.key] \in {"unmonitor", "unmonitor_all"}
    /\ discarded > 0
    /\ \E k \in Keys : Tracked(k) /\ stats_for(k).value.hits > 0

\* C2 as stated: once an event has been recorded, total_accesses equals the
\* sum of hits + misses over the tracked keys.
C2_TotalEqualsSumOfTracked ==
    events.hits + events.misses > 0 => total_accesses = SumOfAccesses

\* C2 as amended: total_accesses equals the sum of hits + misses over the
\* tracked keys, plus the events recorded for keys that were not tracked at
\* the time, plus the events held by entries when unmonitor or unmonitor_all
\* removed them.
C2_TotalEqualsSumPlusUntrackedPlusDiscarded ==
    total_accesses = SumOfAccesses + untracked + discarded

\* C2 witness: all three terms are positive.
C2_Witness ==
    /\ SumOfAccesses > 0
    /\ untracked > 0
    /\ discarded > 0

\* C3: total_accesses >= total_hits in every reachable state, so total_misses
\* does not wrap and equals the number of misses recorded since construction.
C3_TotalMissesIsRecordedMisses ==
    /\ total_accesses >= total_hits
    /\ total_misses = events.misses

\* C3 witness: total_misses has been read after hits and misses.
C3_Witness ==
    /\ last.op = "total_misses"
    /\ last.result.value > 0
    /\ total_hits > 0

\* C4: total_accesses is the number of events recorded since construction and
\* total_hits the number of those that were hits, whatever was tracked when.
C4_TotalsAreRunningTotals ==
    /\ total_accesses = events.hits + events.misses
    /\ total_hits = events.hits

\* C4 witness: hits and misses were recorded, some for an untracked key, and
\* an entry holding events has been removed since.
C4_Witness ==
    /\ events.hits > 0
    /\ events.misses > 0
    /\ untracked > 0
    /\ discarded > 0
    /\ last.op \in {"unmonitor", "unmonitor_all"}

\* C5: monitor(k) of a tracked key changes nothing; monitor(k) of an
\* untracked key adds k with hits = 0 and misses = 0 and nothing else.
C5_MonitorIsIdempotent ==
    [][\A k \in Keys :
        (last'.op = "monitor" /\ last'.key = k) =>
            IF Tracked(k)
                THEN UNCHANGED ledger
                ELSE /\ DOMAIN _hit_map' = DOMAIN _hit_map \cup {k}
                     /\ _hit_map'[k] = [hits |-> 0, misses |-> 0]
                     /\ \A j \in DOMAIN _hit_map : _hit_map'[j] = _hit_map[j]
                     /\ UNCHANGED <<_total_accesses, _total_hits>>]_vars

\* C5 witness: monitor was called for a key that was tracked with hits and
\* misses, and the key still has them.
C5_Witness ==
    /\ last.op = "monitor"
    /\ last.key \in last.before
    /\ hits_for(last.key).value > 0
    /\ misses_for(last.key).value > 0

\* C6: for a key tracked since monitor(k), with N hits and M misses recorded
\* for it since, hits_for(k) = N, misses_for(k) = M, accesses_for(k) = N + M.
C6_PerKeyCountersAreRecordedEvents ==
    \A k \in Keys :
        Tracked(k) =>
            /\ hits_for(k) = Returned(recorded[k].hits)
            /\ misses_for(k) = Returned(recorded[k].misses)
            /\ accesses_for(k) = Returned(recorded[k].hits + recorded[k].misses)

\* C6 witness: accesses_for returned for a key with hits and misses, after
\* events for another key were recorded too.
C6_Witness ==
    /\ last.op = "accesses_for"
    /\ last.result.thrown = "none"
    /\ recorded[last.key].hits > 0
    /\ recorded[last.key].misses > 0
    /\ last.result.value = recorded[last.key].hits + recorded[last.key].misses
    /\ total_accesses > last.result.value

\* C7: recording an outcome for an untracked key adds 1 to total_accesses
\* (and 1 to total_hits on a hit), creates no entry for the key (stats_for
\* still throws) and leaves the tracked keys and their counters as they were.
C7_UntrackedEventTouchesOnlyAggregates ==
    [][\A k \in Keys :
        (last'.op \in {"register_hit", "register_miss"} /\ last'.key = k
            /\ ~Tracked(k)) =>
            /\ _total_accesses' = _total_accesses + 1
            /\ _total_hits' =
                   _total_hits + (IF last'.op = "register_hit" THEN 1 ELSE 0)
            /\ _hit_map' = _hit_map
            /\ ~is_monitoring(k)'
            /\ stats_for(k)'.thrown = "UnmonitoredKey"]_vars

\* C7 witness: a miss was recorded for an untracked key while other keys
\* were tracked with events.
C7_Witness ==
    /\ last.op = "register_miss"
    /\ last.key \notin last.before
    /\ ~Tracked(last.key)
    /\ SumOfAccesses > 0

\* C8: unmonitor_all removes every key (no key is tracked and stats_for
\* throws for every key) and leaves total_accesses and total_hits unchanged.
C8_UnmonitorAllKeepsAggregates ==
    [][last'.op = "unmonitor_all" =>
        /\ number_of_monitored_keys' = 0
        /\ \A k \in Keys : stats_for(k)'.thrown = "UnmonitoredKey"
        /\ _total_accesses' = _total_accesses
        /\ _total_hits' = _total_hits]_vars

\* C8 witness: unmonitor_all removed two or more keys after hits were
\* recorded.
C8_Witness ==
    /\ last.op = "unmonitor_all"
    /\ Cardinality(last.before) >= 2
    /\ number_of_monitored_keys = 0
    /\ total_hits > 0
    /\ discarded > 0

\* C9: unmonitor(k) removes k when it is tracked and changes nothing when it
\* is not, throws nothing, and leaves every other key and both aggregates
\* unchanged.
C9_UnmonitorRemovesOnlyItsKey ==
    [][\A k \in Keys :
        (last'.op = "unmonitor" /\ last'.key = k) =>
            /\ last'.result.thrown = "none"
            /\ DOMAIN _hit_map' = DOMAIN _hit_map \ {k}
            /\ \A j \in DOMAIN _hit_map' : _hit_map'[j] = _hit_map[j]
            /\ stats_for(k)'.thrown = "UnmonitoredKey"
            /\ ~Tracked(k) => _hit_map' = _hit_map
            /\ UNCHANGED <<_total_accesses, _total_hits>>]_vars

\* C9 witness: unmonitor removed a key that held events while another key
\* holding events stayed.
C9_Witness ==
    /\ last.op = "unmonitor"
    /\ last.key \in last.before
    /\ discarded > 0
    /\ \E j \in Keys \ {last.key} : Tracked(j) /\ accesses_for(j).value > 0

\* C10: is_monitoring(k) is true exactly when the most recent call affecting
\* k was monitor(k), and number_of_monitored_keys is the number of keys for
\* which is_monitoring is true.
C10_IsMonitoringReflectsLastCall ==
    /\ \A k \in Keys : is_monitoring(k) <=> last_call[k] = "monitor"
    /\ number_of_monitored_keys = Cardinality({k \in Keys : is_monitoring(k)})
    /\ number_of_monitored_keys
           = Cardinality({k \in Keys : last_call[k] = "monitor"})

\* C10 witness: is_monitoring answered false for a key whose most recent
\* call was unmonitor, while one key is tracked and one was never touched.
C10_Witness ==
    /\ last.op = "is_monitoring"
    /\ last.result.value = FALSE
    /\ last_call[last.key] = "unmonitor"
    /\ \E j \in Keys : last_call[j] = "monitor"
    /\ \E j \in Keys : last_call[j] = "none"
    /\ number_of_monitored_keys = 1

\* What a reader saw agrees with the events recorded when it looked: the
\* aggregates count every event, and the counters of a tracked key count the
\* events recorded for it.
ObservationConsistent ==
    LET seen == last.result.value
    IN  /\ seen.total_accesses = seen.events.hits + seen.events.misses
        /\ seen.total_hits = seen.events.hits
        /\ seen.stats.thrown = (IF seen.tracked THEN "none" ELSE "UnmonitoredKey")
        /\ seen.tracked => seen.stats.value = seen.recorded

NeverFailing ==
    {"monitor", "unmonitor", "unmonitor_all", "total_accesses", "total_hits",
     "total_misses", "is_monitoring", "number_of_monitored_keys",
     "is_monitoring_keys"}

\* C12: in every reachable state and for every key, monitor, unmonitor and
\* unmonitor_all can be called and complete, the aggregate reads and the
\* monitoring queries return a value, and none of them throws.
C12_OnlyPerKeyReadsFail ==
    /\ \A k \in Keys : ENABLED monitor(k) /\ ENABLED unmonitor(k)
    /\ ENABLED unmonitor_all
    /\ total_accesses \in 0..(SizeModulus - 1)
    /\ total_hits \in 0..(SizeModulus - 1)
    /\ total_misses \in 0..(SizeModulus - 1)
    /\ \A k \in Keys : is_monitoring(k) \in BOOLEAN
    /\ number_of_monitored_keys \in 0..Cardinality(Keys)
    /\ is_monitoring_keys \in {0, 1}
    /\ last.op \in NeverFailing => last.result.thrown = "none"

\* C12 witness: unmonitor of a key that was not tracked has returned, after
\* events, with keys tracked.
C12_Witness ==
    /\ last.op = "unmonitor"
    /\ last.key \notin last.before
    /\ last.result.thrown = "none"
    /\ last.before # {}
    /\ total_accesses > 0

\* total_misses / total_accesses as a double.
MissQuotient == double_div(to_double(total_misses), to_double(total_accesses))

\* The distance of two numbers.
Distance(x, y) == IF x >= y THEN x - y ELSE y - x

\* The rates are doubles between 0 and 1, hit_rate is within half a unit in
\* the last place of total_hits / total_accesses, and miss_rate is the double
\* 1 - hit_rate.
RatesInRange ==
    /\ hit_rate.class = "finite"
    /\ hit_rate.scaled \in 0..Unit
    /\ 2 ^ (MantissaBits + 1)
           * Distance(hit_rate.scaled * total_accesses, total_hits * Unit)
       <= total_accesses * Unit
    /\ miss_rate.class = "finite"
    /\ miss_rate.scaled \in 0..Unit
    /\ miss_rate = double_sub(to_double(1), hit_rate)

\* With no access the rates are NaN and no error is raised.
RatesOfNothing ==
    /\ hit_rate = NaN
    /\ miss_rate = NaN
    /\ last.op \in {"hit_rate", "miss_rate"} => last.result.thrown = "none"

\* C13 as stated: with accesses, hit_rate is total_hits / total_accesses in
\* [0, 1] and miss_rate is 1 - hit_rate and equals total_misses /
\* total_accesses; with none, no error is raised.
C13_MissRateIsMissQuotient ==
    IF total_accesses > 0
        THEN RatesInRange /\ miss_rate = MissQuotient
        ELSE RatesOfNothing

\* C13 as amended: with accesses, hit_rate is total_hits / total_accesses
\* rounded to a double in [0, 1], and miss_rate is 1 - hit_rate in double
\* arithmetic, in [0, 1], within the machine epsilon of the double
\* total_misses / total_accesses; with none, both are NaN and no error is
\* raised.
C13_MissRateIsNearMissQuotient ==
    IF total_accesses > 0
        THEN /\ RatesInRange
             /\ MissQuotient.class = "finite"
             /\ Distance(miss_rate.scaled, MissQuotient.scaled)
                    < 2 ^ (Scale + 1 - MantissaBits)
        ELSE RatesOfNothing

\* C13 witness: miss_rate was read after one hit and two misses, and is not
\* the double total_misses / total_accesses.
C13_Witness ==
    /\ last.op = "miss_rate"
    /\ total_hits = 1
    /\ total_accesses = 3
    /\ last.result.value = miss_rate
    /\ miss_rate # MissQuotient

\* C14: a ledger constructed from a sequence of keys has zero aggregates and
\* tracks exactly the keys of the sequence, duplicates once, each with
\* hits = 0 and misses = 0; constructed from nothing it tracks no key.
C14_ConstructedFromKeys ==
    last.op = "Statistics" =>
        LET keys == last.result.value
        IN  /\ total_accesses = 0
            /\ total_hits = 0
            /\ DOMAIN _hit_map = Range(keys)
            /\ \A k \in Keys : is_monitoring(k) <=> k \in Range(keys)
            /\ \A k \in Range(keys) :
                   stats_for(k) = Returned([hits |-> 0, misses |-> 0])
            /\ number_of_monitored_keys = Cardinality(Range(keys))
            /\ keys = <<>> => number_of_monitored_keys = 0

\* C14 witness: a ledger constructed from the same key given twice.
C14_Witness ==
    /\ last.op = "Statistics"
    /\ Len(last.result.value) = 2
    /\ last.result.value[1] = last.result.value[2]
    /\ number_of_monitored_keys = 1

\* C15: is_monitoring_keys is true (non-zero) exactly when at least one key is
\* tracked, that is exactly when number_of_monitored_keys > 0.
C15_IsMonitoringKeysIffSomeKey ==
    /\ is_monitoring_keys # 0 <=> number_of_monitored_keys > 0
    /\ is_monitoring_keys # 0 <=> \E k \in Keys : Tracked(k)
    /\ last.op = "is_monitoring_keys" =>
           (last.result.value # 0 <=> \E k \in Keys : Tracked(k))

\* C15 witness: is_monitoring_keys answered false after the tracked keys,
\* which held events, were removed.
C15_Witness ==
    /\ last.op = "is_monitoring_keys"
    /\ last.result.value = 0
    /\ discarded > 0
    /\ \E k \in Keys : last_call[k] = "unmonitor"

\* C16: while a key stays tracked its hits and misses never decrease from one
\* state to the next; a key that is monitored again after unmonitor starts
\* from hits = 0 and misses = 0, whatever was recorded for it before.
C16_CountersGrowUntilRemoved ==
    [][\A k \in Keys :
        /\ (Tracked(k) /\ Tracked(k)') =>
               /\ hits_for(k)'.value >= hits_for(k).value
               /\ misses_for(k)'.value >= misses_for(k).value
        /\ (last'.op = "monitor" /\ last'.key = k /\ ~Tracked(k)) =>
               /\ hits_for(k)' = Returned(0)
               /\ misses_for(k)' = Returned(0)]_vars

\* C16 witness: a key has just been monitored again; it is the only key ever
\* touched, events recorded for it were discarded, and its counters are 0.
C16_Witness ==
    /\ last.op = "monitor"
    /\ last.key \notin last.before
    /\ discarded > 1
    /\ \A j \in Keys \ {last.key} : last_call[j] = "none"
    /\ hits_for(last.key) = Returned(0)
    /\ misses_for(last.key) = Returned(0)

\* C17: an event recorded for a tracked key adds exactly 1 to that key's
\* hits on a hit, or to its misses on a miss, and leaves its other counter,
\* every other key's counters and the set of tracked keys unchanged.
C17_EventIncrementsOneCounter ==
    [][\A k \in Keys :
        (last'.op \in {"register_hit", "register_miss"} /\ last'.key = k
            /\ Tracked(k)) =>
            LET hit == IF last'.op = "register_hit" THEN 1 ELSE 0
            IN  /\ hits_for(k)' = Returned(hits_for(k).value + hit)
                /\ misses_for(k)' = Returned(misses_for(k).value + (1 - hit))
                /\ DOMAIN _hit_map' = DOMAIN _hit_map
                /\ \A j \in DOMAIN _hit_map \ {k} : _hit_map'[j] = _hit_map[j]]_vars

\* C17 witness: a miss was recorded for a tracked key that had a hit, while
\* another tracked key holds an event.
C17_Witness ==
    /\ last.op = "register_miss"
    /\ last.key \in last.before
    /\ Tracked(last.key)
    /\ hits_for(last.key) = Returned(1)
    /\ misses_for(last.key) = Returned(1)
    /\ \E j \in Keys \ {last.key} : Tracked(j) /\ accesses_for(j) = Returned(1)

\* The keys for which is_monitoring answers true.
MonitoredKeys == {k \in Keys : is_monitoring(k)}

\* The sums, over the monitored keys, of what the per-key reads return.
SumOfAccessesFor ==
    SumOver([k \in MonitoredKeys |-> accesses_for(k).value], MonitoredKeys)

SumOfHitsFor ==
    SumOver([k \in MonitoredKeys |-> hits_for(k).value], MonitoredKeys)

SumOfMissesFor ==
    SumOver([k \in MonitoredKeys |-> misses_for(k).value], MonitoredKeys)

\* C18: in a run in which every event was recorded for a key tracked at the
\* time and no entry holding events was removed (in particular when unmonitor
\* and unmonitor_all are never called), total_accesses is the sum of
\* accesses_for and total_hits the sum of hits_for over the monitored keys.
C18_TotalsAreSumsWhileAllTracked ==
    (untracked = 0 /\ discarded = 0) =>
        /\ total_accesses = SumOfAccessesFor
        /\ total_hits = SumOfHitsFor

\* C18 witness: hits and misses were recorded for two tracked keys, nothing
\* for an untracked key, and nothing was removed.
C18_Witness ==
    /\ untracked = 0
    /\ discarded = 0
    /\ \A k \in Keys : last_call[k] \in {"none", "monitor"}
    /\ total_hits > 0
    /\ total_misses > 0
    /\ Cardinality({k \in MonitoredKeys : accesses_for(k).value > 0}) >= 2

\* C19: the sum of accesses_for over the monitored keys is at most
\* total_accesses, the sum of hits_for at most total_hits and the sum of
\* misses_for at most total_misses.
C19_SumsAreAtMostTotals ==
    /\ SumOfAccessesFor <= total_accesses
    /\ SumOfHitsFor <= total_hits
    /\ SumOfMissesFor <= total_misses

\* C19 witness: after events for untracked keys or removed entries all three
\* sums are below their totals, and a tracked key holds a miss.
C19_Witness ==
    /\ SumOfAccessesFor < total_accesses
    /\ SumOfHitsFor < total_hits
    /\ SumOfMissesFor < total_misses
    /\ SumOfMissesFor > 0

\* The read operations.
ReadOperations ==
    {"total_accesses", "total_hits", "total_misses", "hit_rate", "miss_rate",
     "stats_for", "hits_for", "misses_for", "accesses_for", "is_monitoring",
     "number_of_monitored_keys", "is_monitoring_keys"}

\* C20: every read operation leaves the aggregates, the set of tracked keys
\* and every per-key counter unchanged; a stats_for that throws
\* UnmonitoredKey does not start tracking the key.
C20_ReadsChangeNothing ==
    [][last'.op \in ReadOperations =>
        /\ _total_accesses' = _total_accesses
        /\ _total_hits' = _total_hits
        /\ _hit_map' = _hit_map
        /\ \A k \in Keys :
               (last'.key = k /\ last'.result.thrown = "UnmonitoredKey") =>
                   /\ ~is_monitoring(k)'
                   /\ stats_for(k)'.thrown = "UnmonitoredKey"]_vars

\* C20 witness: stats_for threw for an untracked key after events, with
\* other keys tracked, and the key is still not tracked.
C20_Witness ==
    /\ last.op = "stats_for"
    /\ last.result.thrown = "UnmonitoredKey"
    /\ ~is_monitoring(last.key)
    /\ last.before = DOMAIN _hit_map
    /\ number_of_monitored_keys = 2
    /\ total_accesses = SumOfAccessesFor
    /\ total_accesses > 1

====
